---- MODULE Spec2Model ----
(***************************************************************************)
(* Error functions of the mlp package (src/mlp/errors.py): five loss       *)
(* classes, each with __call__ (the scalar error) and grad (its gradient   *)
(* with respect to the outputs), and the model object that                 *)
(* CrossEntropySoftmaxError reads its regularisation from.                 *)
(*                                                                         *)
(* Arithmetic is exact.  A real number is a finite rational combination of *)
(* the atoms 1, ln p (p prime) and sqrt m (m square-free, m > 1); these    *)
(* atoms are linearly independent over the rationals, so two numbers are   *)
(* equal exactly when their coefficient functions are equal.  exp is taken *)
(* of integer combinations of ln p only and log of positive rationals      *)
(* only, which keeps every intermediate value of the code inside this set. *)
(* Floating-point rounding is not modelled.                                *)
(*                                                                         *)
(* Every array element carries, next to its value (re), the coefficient of *)
(* an infinitesimal (du, with du * du = 0): running the code of __call__   *)
(* on outputs + du e_ij yields in its du part the partial derivative of    *)
(* the error with respect to outputs[i][j].                                *)
(***************************************************************************)
EXTENDS Integers, Sequences, FiniteSets, TLC

---------------------------------------------------------------------------
(* Rationals <<n, d>> in lowest terms, d > 0 *)

Abs(n) == IF n < 0 THEN -n ELSE n

RECURSIVE Gcd(_, _)
Gcd(a, b) == IF b = 0 THEN a ELSE Gcd(b, a % b)

Q(n, d) ==
    LET g == Gcd(Abs(n), Abs(d))
        s == IF d < 0 THEN -1 ELSE 1
    IN  <<(s * n) \div g, (s * d) \div g>>

QZero == <<0, 1>>
QOne == <<1, 1>>
QAdd(a, b) ==
    LET g == Gcd(a[2], b[2])
    IN  Q(a[1] * (b[2] \div g) + b[1] * (a[2] \div g), (a[2] \div g) * b[2])
QNeg(a) == <<-a[1], a[2]>>
QSub(a, b) == QAdd(a, QNeg(b))
QMul(a, b) ==
    LET g1 == Gcd(Abs(a[1]), b[2])
        g2 == Gcd(Abs(b[1]), a[2])
    IN  Q((a[1] \div g1) * (b[1] \div g2), (a[2] \div g2) * (b[2] \div g1))
QInv(a) == Q(a[2], a[1])
QDiv(a, b) == QMul(a, QInv(b))
QAbs(a) == <<Abs(a[1]), a[2]>>
QLess(a, b) == a[1] * b[2] < b[1] * a[2]

---------------------------------------------------------------------------
(* Real numbers: functions from atoms to non-zero rationals *)

One == <<"one", 1>>
Ln(p) == <<"ln", p>>
Sqrt(m) == <<"sqrt", m>>

NZero == [a \in {} |-> QZero]
Coef(x, a) == IF a \in DOMAIN x THEN x[a] ELSE QZero
NQ(q) == IF q[1] = 0 THEN NZero ELSE [a \in {One} |-> q]
NInt(n) == NQ(<<n, 1>>)
NAtom(a, q) == IF q[1] = 0 THEN NZero ELSE [b \in {a} |-> q]

NAdd(x, y) ==
    IF DOMAIN y = {} THEN x
    ELSE IF DOMAIN x = {} THEN y
    ELSE LET s == [a \in DOMAIN x \cup DOMAIN y |-> QAdd(Coef(x, a), Coef(y, a))]
         IN  [a \in {b \in DOMAIN s : s[b][1] # 0} |-> s[a]]
NScale(q, x) ==
    IF q[1] = 0 \/ DOMAIN x = {} THEN NZero
    ELSE [a \in DOMAIN x |-> QMul(q, x[a])]
NNeg(x) == [a \in DOMAIN x |-> QNeg(x[a])]
NSub(x, y) == NAdd(x, NNeg(y))

IsQ(x) == DOMAIN x \subseteq {One}
AsQ(x) == Coef(x, One)
\* a value outside the represented set (a product of two irrationals, a
\* quotient by zero, log of a non-positive number, exp of a non-logarithm)
NUndef == [a \in {<<"undefined", 0>>} |-> QOne]
\* products and quotients: one factor is rational in every use the code makes
NMul(x, y) ==
    IF DOMAIN x = {} \/ DOMAIN y = {} THEN NZero
    ELSE IF IsQ(x) THEN NScale(AsQ(x), y)
    ELSE IF IsQ(y) THEN NScale(AsQ(y), x)
    ELSE NUndef
NDiv(x, y) ==
    IF IsQ(y) /\ AsQ(y)[1] # 0 THEN NScale(QInv(AsQ(y)), x) ELSE NUndef

\* the sign of a number whose non-zero coefficients agree in sign (all atoms
\* are positive reals); 2 when the coefficients disagree
NSign(x) ==
    IF DOMAIN x = {} THEN 0
    ELSE IF \A a \in DOMAIN x : x[a][1] > 0 THEN 1
    ELSE IF \A a \in DOMAIN x : x[a][1] < 0 THEN -1
    ELSE 2
NLess(x, y) == NSign(NSub(x, y)) = -1

RECURSIVE IPow(_, _)
IPow(b, e) == IF e = 0 THEN 1 ELSE b * IPow(b, e - 1)
QPow(b, e) == IF e >= 0 THEN <<IPow(b, e), 1>> ELSE <<1, IPow(b, -e)>>

\* exp(sum_p k_p ln p) = prod_p p^(k_p), k_p integers
RECURSIVE ExpProd(_, _)
ExpProd(x, S) ==
    IF S = {} THEN QOne
    ELSE LET a == CHOOSE b \in S : TRUE
         IN  QMul(QPow(a[2], x[a][1]), ExpProd(x, S \ {a}))
NExp(x) ==
    IF \A a \in DOMAIN x : a[1] = "ln" /\ x[a][2] = 1
    THEN NQ(ExpProd(x, DOMAIN x))
    ELSE NUndef

\* ln n = sum over the prime factorisation of n
RECURSIVE LnInt(_, _)
LnInt(n, p) ==
    IF n = 1 THEN NZero
    ELSE IF n % p = 0 THEN NAdd(NAtom(Ln(p), QOne), LnInt(n \div p, p))
    ELSE LnInt(n, p + 1)
NLog(x) ==
    IF IsQ(x) /\ AsQ(x)[1] > 0
    THEN NSub(LnInt(AsQ(x)[1], 2), LnInt(AsQ(x)[2], 2))
    ELSE NUndef

\* sqrt n = a * sqrt m with m square-free: <<a, m>>
RECURSIVE SqrtInt(_, _)
SqrtInt(n, k) ==
    IF k * k > n THEN <<1, n>>
    ELSE IF n % (k * k) = 0
         THEN LET r == SqrtInt(n \div (k * k), k) IN <<k * r[1], r[2]>>
         ELSE SqrtInt(n, k + 1)
NSqrt(x) ==
    LET q == AsQ(x)
        r == SqrtInt(q[1] * q[2], 2)
    IN  IF ~IsQ(x) \/ q[1] < 0 THEN NUndef
        ELSE IF q[1] = 0 THEN NZero
        ELSE IF r[2] = 1 THEN NQ(Q(r[1], q[2]))
        ELSE NAtom(Sqrt(r[2]), Q(r[1], q[2]))

---------------------------------------------------------------------------
(* Array elements: a value and the coefficient of the infinitesimal *)

D(re, du) == [re |-> re, du |-> du]
DConst(x) == D(x, NZero)
DQ(n, d) == DConst(NQ(Q(n, d)))
DLn2(k) == DConst(NAtom(Ln(2), <<k, 1>>))

DAdd(a, b) == D(NAdd(a.re, b.re), NAdd(a.du, b.du))
DSub(a, b) == D(NSub(a.re, b.re), NSub(a.du, b.du))
DNeg(a) == D(NNeg(a.re), NNeg(a.du))
DMul(a, b) == D(NMul(a.re, b.re), NAdd(NMul(a.re, b.du), NMul(a.du, b.re)))
DDiv(a, b) ==
    D(NDiv(a.re, b.re),
      IF DOMAIN a.du = {} /\ DOMAIN b.du = {} THEN NZero
      ELSE NDiv(NSub(NMul(a.du, b.re), NMul(a.re, b.du)), NMul(b.re, b.re)))
DSquare(a) == DMul(a, a)
DExp(a) == D(NExp(a.re), NMul(NExp(a.re), a.du))
DLog(a) == D(NLog(a.re), IF DOMAIN a.du = {} THEN NZero ELSE NDiv(a.du, a.re))
DAbs(a) == IF NSign(a.re) = -1 THEN DNeg(a) ELSE a
DSqrt(a) == DConst(NSqrt(a.re))

---------------------------------------------------------------------------
(* Python values: floats, numpy arrays of one or two dimensions, None, *)
(* strings, and a raised exception                                     *)

Float(d) == [tag |-> "float", v |-> d]
Arr1(xs) == [tag |-> "ndarray", ndim |-> 1, data |-> xs]
Arr2(rows) == [tag |-> "ndarray", ndim |-> 2, data |-> rows]
Raise(type) == [tag |-> "exc", type |-> type]
IsExc(x) == x.tag = "exc"

\* the shape of an operand of a binary operation; a float broadcasts as (1, 1)
Shape(a) == IF a.tag = "float" THEN <<1, 1>> ELSE <<Len(a.data), Len(a.data[1])>>
Elem(a, i, j) ==
    IF a.tag = "float" THEN a.v
    ELSE a.data[IF Len(a.data) = 1 THEN 1 ELSE i][IF Len(a.data[1]) = 1 THEN 1 ELSE j]
Max2(m, n) == IF m < n THEN n ELSE m

\* numpy's elementwise binary operation on two-dimensional operands, with
\* broadcasting: a dimension of extent 1 is stretched to the other's extent;
\* any other difference raises ValueError
Op2(op, x, y) ==
    CASE op = "add" -> DAdd(x, y)
      [] op = "sub" -> DSub(x, y)
      [] op = "mul" -> DMul(x, y)
      [] op = "div" -> DDiv(x, y)
Op1(op, x) ==
    CASE op = "neg" -> DNeg(x)
      [] op = "square" -> DSquare(x)
      [] op = "log" -> DLog(x)
      [] op = "exp" -> DExp(x)
Bin(op, a, b) ==
    IF IsExc(a) THEN a
    ELSE IF IsExc(b) THEN b
    ELSE LET sa == Shape(a)
             sb == Shape(b)
         IN  IF \E k \in 1..2 : sa[k] # sb[k] /\ sa[k] # 1 /\ sb[k] # 1
             THEN Raise("ValueError")
             ELSE Arr2([i \in 1..Max2(sa[1], sb[1]) |->
                         [j \in 1..Max2(sa[2], sb[2]) |->
                           Op2(op, Elem(a, i, j), Elem(b, i, j))]])
Map(op, a) ==
    IF IsExc(a) THEN a
    ELSE IF a.ndim = 1 THEN Arr1([i \in 1..Len(a.data) |-> Op1(op, a.data[i])])
    ELSE Arr2([i \in 1..Len(a.data) |->
                [j \in 1..Len(a.data[i]) |-> Op1(op, a.data[i][j])]])
\* the same operations on two floats
FBin(op, x, y) ==
    IF IsExc(x) THEN x ELSE IF IsExc(y) THEN y ELSE Float(Op2(op, x.v, y.v))
FNeg(x) == IF IsExc(x) THEN x ELSE Float(DNeg(x.v))

np_add(a, b) == Bin("add", a, b)
np_sub(a, b) == Bin("sub", a, b)
np_mul(a, b) == Bin("mul", a, b)
np_div(a, b) == Bin("div", a, b)
np_square(a) == Map("square", a)
np_log(a) == Map("log", a)
np_exp(a) == Map("exp", a)
np_neg(a) == Map("neg", a)

RECURSIVE SeqSum(_)
SeqSum(xs) ==
    IF xs = << >> THEN DConst(NZero) ELSE DAdd(xs[1], SeqSum(Tail(xs)))
RECURSIVE SeqMax(_)
SeqMax(xs) ==
    IF Len(xs) = 1 THEN xs[1]
    ELSE LET m == SeqMax(Tail(xs)) IN IF NLess(xs[1].re, m.re) THEN m ELSE xs[1]
RECURSIVE Concat(_)
Concat(xss) == IF xss = << >> THEN << >> ELSE xss[1] \o Concat(Tail(xss))

\* a.sum(axis=1), a.max(-1): one entry per row
np_sum_axis1(a) ==
    IF IsExc(a) THEN a ELSE Arr1([i \in 1..Len(a.data) |-> SeqSum(a.data[i])])
np_max_axis1(a) ==
    IF IsExc(a) THEN a ELSE Arr1([i \in 1..Len(a.data) |-> SeqMax(a.data[i])])
\* v[:, None]: a one-dimensional array as a column
NewAxis(v) ==
    IF IsExc(v) THEN v ELSE Arr2([i \in 1..Len(v.data) |-> <<v.data[i]>>])
\* a.flatten(): row-major
flatten(a) == IF a.ndim = 1 THEN a ELSE Arr1(Concat(a.data))
\* np.mean(a): the sum of all the elements over their number
np_mean(a) ==
    IF IsExc(a) THEN a
    ELSE LET xs == flatten(a).data
         IN  Float(DDiv(SeqSum(xs), DQ(Len(xs), 1)))
\* a.shape[0]
shape0(a) == Float(DQ(Len(a.data), 1))
\* np.concatenate(list of one-dimensional arrays)
np_concatenate(as) ==
    IF as = << >> THEN Raise("ValueError")
    ELSE Arr1(Concat([k \in 1..Len(as) |-> as[k].data]))
\* np.linalg.norm(v, ord) of a one-dimensional array, ord 1 or 2
np_linalg_norm(v, ord) ==
    IF IsExc(v) THEN v
    ELSE IF ord = 1
         THEN Float(SeqSum([k \in 1..Len(v.data) |-> DAbs(v.data[k])]))
         ELSE Float(DSqrt(SeqSum([k \in 1..Len(v.data) |-> DSquare(v.data[k])])))

---------------------------------------------------------------------------
(* The program state *)

VARIABLES
    heap,       \* the object store: the model object, by reference
    errs,       \* the five error-function instances, by class name
    outputs,    \* the caller's outputs array
    targets,    \* the caller's targets array
    ret         \* what the last call returned (or raised), NoCall before any

vars == <<heap, errs, outputs, targets, ret>>

None == [tag |-> "NoneType"]
Str(s) == [tag |-> "str", s |-> s]
Float1 == Float(DQ(1, 1))

\* what a method leaves behind: its return value (or the exception it
\* raised) and the objects it could reach, as they are when it returns
Returns(v, self, h, o, t) ==
    [ret |-> v, self |-> self, heap |-> h, outputs |-> o, targets |-> t]

\* a name looked up in a method's local scope (the module's only global is np)
Name(env, n) == IF n \in DOMAIN env THEN env[n] ELSE Raise("NameError")

---------------------------------------------------------------------------
(* class SumOfSquaredDiffsError *)

SumOfSquaredDiffsError_call(self, h, o, t) ==
    Returns(FBin("mul", np_mean(np_sum_axis1(np_square(np_sub(o, t)))),
                 Float(DQ(1, 2))),
            self, h, o, t)

\* the gradient without the division by the batch size
SumOfSquaredDiffsError_grad_unscaled(self, h, o, t) ==
    Returns(np_sub(o, t), self, h, o, t)

SumOfSquaredDiffsError_grad(self, h, o, t) ==
    Returns(np_div(np_sub(o, t), shape0(o)), self, h, o, t)

(* class BinaryCrossEntropyError *)

BinaryCrossEntropyError_call(self, h, o, t) ==
    LET env == [self |-> self, outputs |-> o, targets |-> t]
    IN  Returns(
          FNeg(np_mean(
            np_add(np_mul(Name(env, "targets"), np_log(Name(env, "outputs"))),
                   np_mul(np_sub(Float1, Name(env, "targets")),
                          np_log(np_sub(Float1, Name(env, "ouputs"))))))),
          self, h, o, t)

BinaryCrossEntropyError_grad(self, h, o, t) ==
    Returns(np_div(np_sub(np_div(np_sub(Float1, t), np_sub(Float1, o)),
                          np_div(t, o)),
                   shape0(o)),
            self, h, o, t)

(* class BinaryCrossEntropySigmoidError *)

BinaryCrossEntropySigmoidError_call(self, h, o, t) ==
    LET probs == np_div(Float1, np_add(Float1, np_exp(np_neg(o))))
    IN  Returns(
          FNeg(np_mean(
            np_add(np_mul(t, np_log(probs)),
                   np_mul(np_sub(Float1, t), np_log(np_sub(Float1, probs)))))),
          self, h, o, t)

BinaryCrossEntropySigmoidError_grad(self, h, o, t) ==
    LET probs == np_div(Float1, np_add(Float1, np_exp(np_neg(o))))
    IN  Returns(np_div(np_sub(probs, t), shape0(o)), self, h, o, t)

(* class CrossEntropyError *)

CrossEntropyError_call(self, h, o, t) ==
    Returns(FNeg(np_mean(np_sum_axis1(np_mul(t, np_log(o))))), self, h, o, t)

CrossEntropyError_grad(self, h, o, t) ==
    Returns(np_div(np_neg(np_div(t, o)), shape0(o)), self, h, o, t)

(* class CrossEntropySoftmaxError *)

\* __init__ keeping a copy of the model, as it is at construction
CrossEntropySoftmaxError_init_copy(h, model) ==
    [self |-> [class |-> "CrossEntropySoftmaxError", model |-> "copy"],
     heap |-> ("copy" :> h[model]) @@ h]

\* __init__(self, model): the instance keeps the reference it is given
CrossEntropySoftmaxError_init(h, model) ==
    [self |-> [class |-> "CrossEntropySoftmaxError", model |-> model],
     heap |-> h]

\* the weights without the arrays after the first (the biases)
CrossEntropySoftmaxError_get_weights_first(self, h) ==
    flatten(h[self.model].params[1])

CrossEntropySoftmaxError_get_weights(self, h) ==
    LET params == h[self.model].params
    IN  np_concatenate([k \in 1..Len(params) |-> flatten(params[k])])

\* __call__ with the sum of exponentials taken of the outputs as given
CrossEntropySoftmaxError_call_unshifted_sum(self, h, o, t) ==
    LET normalized_outputs == np_sub(o, NewAxis(np_max_axis1(o)))
        log_prob ==
            np_sub(normalized_outputs,
                   np_log(NewAxis(np_sum_axis1(np_exp(o)))))
    IN  Returns(FNeg(np_mean(np_sum_axis1(np_mul(t, log_prob)))), self, h, o, t)

CrossEntropySoftmaxError_call(self, h, o, t) ==
    LET normalized_outputs == np_sub(o, NewAxis(np_max_axis1(o)))
        log_prob ==
            np_sub(normalized_outputs,
                   np_log(NewAxis(np_sum_axis1(np_exp(normalized_outputs)))))
        cost == FNeg(np_mean(np_sum_axis1(np_mul(t, log_prob))))
        model == h[self.model]
        cost1 ==
            IF IsExc(cost) THEN cost
            ELSE IF model.regularizer = Str("L1")
            THEN FBin("add", cost,
                      FBin("mul", model.regularizer_lambda,
                           np_linalg_norm(
                             CrossEntropySoftmaxError_get_weights(self, h), 1)))
            ELSE IF model.regularizer = Str("L2")
            THEN FBin("add", cost,
                      FBin("mul", model.regularizer_lambda,
                           np_linalg_norm(
                             CrossEntropySoftmaxError_get_weights(self, h), 2)))
            ELSE cost
    IN  Returns(cost1, self, h, o, t)

\* grad with the model's penalty weight added to every entry
CrossEntropySoftmaxError_grad_regularized(self, h, o, t) ==
    LET probs == np_exp(np_sub(o, NewAxis(np_max_axis1(o))))
        probs1 == np_div(probs, NewAxis(np_sum_axis1(probs)))
        model == h[self.model]
        g == np_div(np_sub(probs1, t), shape0(o))
    IN  Returns(IF model.regularizer \in {Str("L1"), Str("L2")}
                THEN np_add(g, model.regularizer_lambda) ELSE g,
                self, h, o, t)

\* grad normalising the caller's outputs array in place
CrossEntropySoftmaxError_grad_inplace(self, h, o, t) ==
    LET o1 == np_sub(o, NewAxis(np_max_axis1(o)))
        probs == np_exp(o1)
        probs1 == np_div(probs, NewAxis(np_sum_axis1(probs)))
    IN  Returns(np_div(np_sub(probs1, t), shape0(o1)), self, h, o1, t)

CrossEntropySoftmaxError_grad(self, h, o, t) ==
    LET \* probs = np.exp(...): a new array
        probs == np_exp(np_sub(o, NewAxis(np_max_axis1(o))))
        \* probs /= ...: in place, on that new array
        probs1 == np_div(probs, NewAxis(np_sum_axis1(probs)))
    IN  Returns(np_div(np_sub(probs1, t), shape0(o)), self, h, o, t)

---------------------------------------------------------------------------
(* Inputs *)

MaxBatch == 2
MaxDim == 2

\* outputs that are probabilities, strictly inside (0, 1): row i of variant v
ProbRow(v, i, d) ==
    [j \in 1..d |-> CASE v = 1 -> DQ(1, i + j)
                      [] v = 2 -> DQ(i + j - 1, i + j)
                      [] v = 3 -> DQ(j, i + j + 1)]
\* outputs that are logits, integer multiples of ln 2
LogitRow(v, i, d) ==
    [j \in 1..d |-> CASE v = 1 -> DLn2(j - i)
                      [] v = 2 -> IF j = 1 THEN DLn2(i) ELSE DLn2(1 - j)
                      [] v = 3 -> DLn2(0)]
\* targets: a one-hot row or the all-zero row (v = 1, 2), or the uniform
\* distribution (v = 3)
TargetRow(v, i, d) ==
    [j \in 1..d |-> CASE v = 3 -> DQ(1, d)
                      [] OTHER -> IF j = ((i + v - 2) % (d + 1)) + 1
                                  THEN DQ(1, 1) ELSE DQ(0, 1)]

Variants == 1..3
Row(kind, v, i, d) ==
    CASE kind = "prob" -> ProbRow(v, i, d)
      [] kind = "logit" -> LogitRow(v, i, d)
      [] kind = "target" -> TargetRow(v, i, d)
Arrays(kind) ==
    {Arr2([i \in 1..b |-> Row(kind, v, i, d)]) :
        v \in Variants, b \in 1..MaxBatch, d \in 1..MaxDim}
OutputArrays == Arrays("prob") \cup Arrays("logit")
TargetArrays == Arrays("target")

\* the model's parameter arrays: a weight matrix and a bias vector
ParamChoices ==
    {<<Arr2(<< <<DQ(3, 1), DQ(-4, 1)>> >>), Arr1(<<DQ(0, 1)>>)>>,
     <<Arr2(<< <<DQ(1, 1)>>, <<DQ(-1, 1)>> >>), Arr1(<<DQ(1, 1)>>)>>}
RegularizerChoices == {None, Str("L1"), Str("L2"), Str("l2")}
LambdaChoices == {Float(DQ(0, 1)), Float(DQ(1, 2))}

Classes ==
    {"SumOfSquaredDiffsError", "BinaryCrossEntropyError",
     "BinaryCrossEntropySigmoidError", "CrossEntropyError",
     "CrossEntropySoftmaxError"}

\* the numeric domain of each class's formulas: outside it the code yields
\* inf and nan, or numbers outside the exact arithmetic used here
Elems(a) ==
    {a.data[i][j] : i \in 1..Len(a.data), j \in 1..Len(a.data[1])}
IsRational(x) == IsQ(x.re)
InUnit(x) == IsQ(x.re) /\ QLess(QZero, AsQ(x.re)) /\ QLess(AsQ(x.re), QOne)
IsLogit(x) == DOMAIN x.re \subseteq {Ln(2)} /\ \A a \in DOMAIN x.re : x.re[a][2] = 1
InDomain(cls, o) ==
    CASE cls = "SumOfSquaredDiffsError" -> \A x \in Elems(o) : IsRational(x)
      [] cls \in {"BinaryCrossEntropyError", "CrossEntropyError"} ->
            \A x \in Elems(o) : InUnit(x)
      [] OTHER -> \A x \in Elems(o) : IsLogit(x)

---------------------------------------------------------------------------
(* Initial state and steps *)

NoCall == [op |-> "none"]

Model0 ==
    [params |-> <<Arr2(<< <<DQ(3, 1), DQ(-4, 1)>> >>), Arr1(<<DQ(0, 1)>>)>>,
     regularizer |-> None,
     regularizer_lambda |-> Float(DQ(0, 1))]

Init ==
    LET h0 == [m \in {"model"} |-> Model0]
        c == CrossEntropySoftmaxError_init(h0, "model")
    IN  /\ heap = c.heap
        /\ errs = [cls \in Classes |->
                     IF cls = "CrossEntropySoftmaxError" THEN c.self
                     ELSE [class |-> cls]]
        /\ outputs \in OutputArrays
        /\ targets \in TargetArrays
        /\ ret = NoCall

\* a method of the instance of class cls ran and left r behind
Ran(cls, op, r) ==
    /\ heap' = r.heap
    /\ errs' = [errs EXCEPT ![cls] = r.self]
    /\ outputs' = r.outputs
    /\ targets' = r.targets
    /\ ret' = [op |-> op, class |-> cls, val |-> r.ret]

Method(cls, op, self, h, o, t) ==
    CASE cls = "SumOfSquaredDiffsError" /\ op = "call" ->
            SumOfSquaredDiffsError_call(self, h, o, t)
      [] cls = "SumOfSquaredDiffsError" /\ op = "grad" ->
            SumOfSquaredDiffsError_grad(self, h, o, t)
      [] cls = "BinaryCrossEntropyError" /\ op = "call" ->
            BinaryCrossEntropyError_call(self, h, o, t)
      [] cls = "BinaryCrossEntropyError" /\ op = "grad" ->
            BinaryCrossEntropyError_grad(self, h, o, t)
      [] cls = "BinaryCrossEntropySigmoidError" /\ op = "call" ->
            BinaryCrossEntropySigmoidError_call(self, h, o, t)
      [] cls = "BinaryCrossEntropySigmoidError" /\ op = "grad" ->
            BinaryCrossEntropySigmoidError_grad(self, h, o, t)
      [] cls = "CrossEntropyError" /\ op = "call" ->
            CrossEntropyError_call(self, h, o, t)
      [] cls = "CrossEntropyError" /\ op = "grad" ->
            CrossEntropyError_grad(self, h, o, t)
      [] cls = "CrossEntropySoftmaxError" /\ op = "call" ->
            CrossEntropySoftmaxError_call(self, h, o, t)
      [] cls = "CrossEntropySoftmaxError" /\ op = "grad" ->
            CrossEntropySoftmaxError_grad(self, h, o, t)

\* error(outputs, targets)
Call(cls) ==
    /\ ret = NoCall
    /\ InDomain(cls, outputs)
    /\ Ran(cls, "call", Method(cls, "call", errs[cls], heap, outputs, targets))

\* error.grad(outputs, targets)
Grad(cls) ==
    /\ ret = NoCall
    /\ InDomain(cls, outputs)
    /\ Ran(cls, "grad", Method(cls, "grad", errs[cls], heap, outputs, targets))

\* the caller takes what the method returned (or handles what it raised)
Return ==
    /\ ret # NoCall
    /\ ret' = NoCall
    /\ UNCHANGED <<heap, errs, outputs, targets>>

\* the caller's next batch: the network's forward pass yields a new outputs
\* array, the data provider a new targets array
NewOutputs ==
    /\ ret = NoCall
    /\ outputs' \in OutputArrays
    /\ UNCHANGED <<heap, errs, targets, ret>>

NewTargets ==
    /\ ret = NoCall
    /\ targets' \in TargetArrays
    /\ UNCHANGED <<heap, errs, outputs, ret>>

\* the owner of the model updates its parameters
SetParams ==
    /\ ret = NoCall
    /\ \E p \in ParamChoices : heap' = [heap EXCEPT !["model"].params = p]
    /\ UNCHANGED <<errs, outputs, targets, ret>>

SetRegularizer ==
    /\ ret = NoCall
    /\ \E k \in RegularizerChoices :
          heap' = [heap EXCEPT !["model"].regularizer = k]
    /\ UNCHANGED <<errs, outputs, targets, ret>>

SetLambda ==
    /\ ret = NoCall
    /\ \E l \in LambdaChoices :
          heap' = [heap EXCEPT !["model"].regularizer_lambda = l]
    /\ UNCHANGED <<errs, outputs, targets, ret>>

Next ==
    \/ \E cls \in Classes : Call(cls)
    \/ \E cls \in Classes : Grad(cls)
    \/ Return
    \/ NewOutputs
    \/ NewTargets
    \/ SetParams
    \/ SetRegularizer
    \/ SetLambda

Spec == Init /\ [][Next]_vars

---------------------------------------------------------------------------
(* Reference formulas, written element by element from the mathematics *)

BatchSize == Len(outputs.data)
OutputDim == Len(outputs.data[1])
SameShape == Shape(outputs) = Shape(targets)
Returned(cls, op) == ret.op = op /\ ret.class = cls
IsNumber(v) == v.tag = "float"
IsArray(v) == v.tag = "ndarray"

\* what the instance of class cls, as it is now, returns for (o, t)
Val(cls, op, o, t) == Method(cls, op, errs[cls], heap, o, t).ret

Sigmoid(x) == DDiv(DQ(1, 1), DAdd(DQ(1, 1), DExp(DNeg(x))))
\* log softmax(o)[i][j] = o[i][j] - log sum_k exp(o[i][k])
LogSoftmax(o, i, j) ==
    DSub(o.data[i][j],
         DLog(SeqSum([k \in 1..Len(o.data[i]) |-> DExp(o.data[i][k])])))
SoftmaxProb(o, i, j) ==
    DDiv(DExp(o.data[i][j]),
         SeqSum([k \in 1..Len(o.data[i]) |-> DExp(o.data[i][k])]))
BinaryEntropy(x, y) ==
    DNeg(DAdd(DMul(y, DLog(x)),
              DMul(DSub(DQ(1, 1), y), DLog(DSub(DQ(1, 1), x)))))

\* the loss of one element, per class
ElementLoss(cls, o, t, i, j) ==
    LET x == o.data[i][j]
        y == t.data[i][j]
    IN  CASE cls = "SumOfSquaredDiffsError" ->
                DMul(DQ(1, 2), DSquare(DSub(x, y)))
          [] cls = "BinaryCrossEntropyError" -> BinaryEntropy(x, y)
          [] cls = "BinaryCrossEntropySigmoidError" ->
                BinaryEntropy(Sigmoid(x), y)
          [] cls = "CrossEntropyError" -> DNeg(DMul(y, DLog(x)))
          [] cls = "CrossEntropySoftmaxError" ->
                DNeg(DMul(y, LogSoftmax(o, i, j)))
\* the sum of the element losses over all rows and columns
TotalLoss(cls, o, t) ==
    SeqSum(Concat([i \in 1..Len(o.data) |->
                    [j \in 1..Len(o.data[i]) |-> ElementLoss(cls, o, t, i, j)]]))

\* the weight vector: every parameter array, in declared order, row-major
WeightVector(m) ==
    Concat([k \in 1..Len(m.params) |->
             IF m.params[k].ndim = 1 THEN m.params[k].data
             ELSE Concat(m.params[k].data)])
L1Norm(v) == SeqSum([k \in 1..Len(v) |-> DAbs(v[k])])
L2Norm(v) == DSqrt(SeqSum([k \in 1..Len(v) |-> DMul(v[k], v[k])]))
\* the penalty the model's regularizer configuration asks for
Penalty(m) ==
    IF m.regularizer = Str("L1")
    THEN DMul(m.regularizer_lambda.v, L1Norm(WeightVector(m)))
    ELSE IF m.regularizer = Str("L2")
    THEN DMul(m.regularizer_lambda.v, L2Norm(WeightVector(m)))
    ELSE DQ(0, 1)

\* outputs + du e_ij: the du part of a result is its partial derivative
\* with respect to outputs[i][j]
Perturb(o, i, j) ==
    Arr2([o.data EXCEPT ![i][j] = D(o.data[i][j].re, NInt(1))])

\* every row of t sums to 1 (a distribution over the classes)
RowsSumToOne(t) ==
    \A i \in 1..Len(t.data) : SeqSum(t.data[i]) = DQ(1, 1)
\* a pair the class's formulas are meant for: equal shapes and, for the two
\* multi-class errors, targets that are distributions
WellFormed(cls) ==
    /\ SameShape
    /\ cls \in {"CrossEntropyError", "CrossEntropySoftmaxError"} =>
          RowsSumToOne(targets)

---------------------------------------------------------------------------
(* C1.  Calling __call__ or grad with outputs and targets of different   *)
(* shapes is rejected: it raises, and never returns a value or gradient *)
(* obtained by broadcasting.                                            *)
C1_MismatchedShapesRejected ==
    (ret # NoCall /\ ~SameShape) => IsExc(ret.val)

(* C2.  BinaryCrossEntropyError.__call__ on arrays of equal shape with   *)
(* outputs strictly inside (0, 1) returns the number                     *)
(* -mean(targets * log(outputs) + (1 - targets) * log(1 - outputs)).     *)
C2_BinaryCrossEntropyValue ==
    (Returned("BinaryCrossEntropyError", "call") /\ SameShape) =>
        ret.val = Float(DDiv(TotalLoss("BinaryCrossEntropyError", outputs, targets),
                             DQ(BatchSize * OutputDim, 1)))

(* C3.  For every class and every well-formed pair, grad(outputs,        *)
(* targets)[i][j] is the partial derivative of the value __call__        *)
(* returns with respect to outputs[i][j] (stated for the classes whose   *)
(* __call__ returns a number).                                           *)
C3_GradIsDerivativeOfValue ==
    (ret.op = "grad" /\ WellFormed(ret.class)) =>
        \A i \in 1..BatchSize : \A j \in 1..OutputDim :
            LET value == Val(ret.class, "call", Perturb(outputs, i, j), targets)
            IN  IsNumber(value) => ret.val.data[i][j].re = value.v.du

\* every row twice: the batch doubled
Doubled(a) == Arr2(a.data \o a.data)
Twice(row) == [j \in 1..Len(row) |-> DMul(DQ(2, 1), row[j])]

(* C4 as claimed.  With every row duplicated, __call__ returns what it   *)
(* returned for the original batch and every original row of the         *)
(* gradient is unchanged.                                                *)
C4_DoubledBatchSameValueSameGradient ==
    (ret # NoCall /\ WellFormed(ret.class)) =>
        LET doubled == Val(ret.class, ret.op, Doubled(outputs), Doubled(targets))
        IN  IF ret.op = "call" THEN doubled = ret.val
            ELSE \A i \in 1..BatchSize : doubled.data[i] = ret.val.data[i]

(* C4 as amended.  With every row duplicated, __call__ returns what it   *)
(* returned for the original batch (in BinaryCrossEntropyError, raises   *)
(* the same NameError), and every row of the gradient, the original and  *)
(* its duplicate, is half of the original batch's row.                   *)
C4_DoubledBatchSameValueHalfGradient ==
    (ret # NoCall /\ WellFormed(ret.class)) =>
        LET doubled == Val(ret.class, ret.op, Doubled(outputs), Doubled(targets))
        IN  IF ret.op = "call" THEN doubled = ret.val
            ELSE /\ IsArray(doubled)
                 /\ Len(doubled.data) = 2 * BatchSize
                 /\ \A i \in 1..BatchSize :
                       /\ Twice(doubled.data[i]) = ret.val.data[i]
                       /\ Twice(doubled.data[i + BatchSize]) = ret.val.data[i]

C4_Witness ==
    /\ ret.op = "grad"
    /\ WellFormed(ret.class)
    /\ BatchSize = 2
    /\ OutputDim = 2
    /\ \E i \in 1..2 : \E j \in 1..2 : ret.val.data[i][j].re # NZero

\* the same, for the three classes where it holds
GradIsDerivativeOfValueElsewhere ==
    (ret.op = "grad" /\ WellFormed(ret.class)
       /\ ret.class \in {"SumOfSquaredDiffsError", "CrossEntropyError",
                         "CrossEntropySoftmaxError"}) =>
        \A i \in 1..BatchSize : \A j \in 1..OutputDim :
            LET value == Val(ret.class, "call", Perturb(outputs, i, j), targets)
            IN  IsNumber(value) /\ ret.val.data[i][j].re = value.v.du

(* C5.  In every class the value returned is the sum over all rows and   *)
(* columns of the element losses divided by batch_size and by nothing    *)
(* else (plus, for CrossEntropySoftmaxError, the penalty), and every     *)
(* gradient entry is the derivative of that sum divided by batch_size.   *)
C5_DividedByBatchSizeOnly ==
    (ret # NoCall /\ WellFormed(ret.class)) =>
        IF ret.op = "call"
        THEN IsNumber(ret.val) =>
                ret.val.v =
                    DAdd(DDiv(TotalLoss(ret.class, outputs, targets),
                              DQ(BatchSize, 1)),
                         IF ret.class = "CrossEntropySoftmaxError"
                         THEN Penalty(heap["model"]) ELSE DQ(0, 1))
        ELSE \A i \in 1..BatchSize : \A j \in 1..OutputDim :
                ret.val.data[i][j].re =
                    NDiv(TotalLoss(ret.class, Perturb(outputs, i, j), targets).du,
                         NInt(BatchSize))

\* the gradient half of C5 alone, which holds in every class
GradientDividedByBatchSizeOnly ==
    (ret.op = "grad" /\ WellFormed(ret.class)) =>
        \A i \in 1..BatchSize : \A j \in 1..OutputDim :
            ret.val.data[i][j].re =
                NDiv(TotalLoss(ret.class, Perturb(outputs, i, j), targets).du,
                     NInt(BatchSize))

\* the value half of C5 in the classes that sum over the columns first
ValueDividedByBatchSizeOnly ==
    (ret.op = "call" /\ WellFormed(ret.class)
       /\ ret.class \in {"SumOfSquaredDiffsError", "CrossEntropyError",
                         "CrossEntropySoftmaxError"}) =>
        /\ IsNumber(ret.val)
        /\ ret.val.v =
              DAdd(DDiv(TotalLoss(ret.class, outputs, targets),
                        DQ(BatchSize, 1)),
                   IF ret.class = "CrossEntropySoftmaxError"
                   THEN Penalty(heap["model"]) ELSE DQ(0, 1))

Softmax == "CrossEntropySoftmaxError"
ModelStates ==
    [params : ParamChoices, regularizer : RegularizerChoices,
     regularizer_lambda : LambdaChoices]

C7_GradIgnoresModel ==
    (Returned(Softmax, "grad") /\ SameShape) =>
        /\ IsArray(ret.val)
        /\ \A i \in 1..BatchSize : \A j \in 1..OutputDim :
              ret.val.data[i][j] =
                  DDiv(DSub(SoftmaxProb(outputs, i, j), targets.data[i][j]),
                       DQ(BatchSize, 1))
        /\ \A m \in ModelStates :
              Method(Softmax, "grad", errs[Softmax],
                     [heap EXCEPT !["model"] = m], outputs, targets).ret = ret.val

\* a gradient was returned in a model state from which another model state
\* differs in the value __call__ returns
C7_Witness ==
    /\ Returned(Softmax, "grad")
    /\ SameShape
    /\ IsArray(ret.val)
    /\ \E m \in ModelStates :
          Method(Softmax, "call", errs[Softmax],
                 [heap EXCEPT !["model"] = m], outputs, targets).ret
            # Val(Softmax, "call", outputs, targets)

(* C8.  Whatever changes were made to the model since the instance was   *)
(* constructed, __call__ returns what an instance constructed on the     *)
(* model at the moment of the call returns.                              *)
C8_ValueReadsLiveModel ==
    Returned(Softmax, "call") =>
        LET fresh == CrossEntropySoftmaxError_init(heap, "model")
        IN  ret.val = CrossEntropySoftmaxError_call(fresh.self, fresh.heap,
                                                    outputs, targets).ret

C8_Witness ==
    /\ Returned(Softmax, "call")
    /\ SameShape
    /\ heap["model"].params # Model0.params
    /\ heap["model"].regularizer = Str("L1")
    /\ heap["model"].regularizer_lambda # Model0.regularizer_lambda

\* c[i] * ln 2 added to every entry of row i
Shifted(o, c) ==
    Arr2([i \in 1..Len(o.data) |->
           [j \in 1..Len(o.data[i]) |-> DAdd(o.data[i][j], DLn2(c[i]))]])
ShiftChoices ==
    {[i \in 1..BatchSize |-> 2],
     [i \in 1..BatchSize |-> -i],
     [i \in 1..BatchSize |-> IF i = 1 THEN 3 ELSE 0]}

(* C9.  CrossEntropySoftmaxError: adding a constant to every entry of a  *)
(* row of outputs changes neither the value nor the gradient.            *)
C9_ShiftInvariance ==
    (ret # NoCall /\ ret.class = Softmax) =>
        \A c \in ShiftChoices :
            Val(Softmax, ret.op, Shifted(outputs, c), targets) = ret.val

C9_Witness ==
    /\ Returned(Softmax, "call")
    /\ SameShape
    /\ BatchSize = 2
    /\ OutputDim = 2
    /\ IsNumber(ret.val)
    /\ ret.val.v.re # NZero

(* C10.  A call of __call__ or grad leaves the outputs and targets       *)
(* arrays, the model and the instances as they were, and calling again   *)
(* returns the same.                                                     *)
C10_CallsChangeNothing ==
    [][(ret = NoCall /\ ret' # NoCall) =>
          /\ outputs' = outputs
          /\ targets' = targets
          /\ heap' = heap
          /\ errs' = errs
          /\ Method(ret'.class, ret'.op, errs'[ret'.class], heap',
                    outputs', targets').ret = ret'.val]_vars

C10_Witness ==
    /\ Returned(Softmax, "grad")
    /\ SameShape
    /\ IsArray(ret.val)
    /\ \E i \in 1..BatchSize : SeqMax(outputs.data[i]).re # NZero

\* no result of a call on a same-shape pair leaves the exact arithmetic
Defined(x) == <<"undefined", 0>> \notin (DOMAIN x.re \cup DOMAIN x.du)
ResultsDefined ==
    (ret # NoCall /\ SameShape) =>
        CASE IsNumber(ret.val) -> Defined(ret.val.v)
          [] IsArray(ret.val) -> \A x \in Elems(ret.val) : Defined(x)
          [] OTHER -> Returned("BinaryCrossEntropyError", "call")

====
